---- MODULE Spec2Model ----
(***************************************************************************)
(* Model of the batch pipeline of the Cosmos DB vector-search samples:    *)
(*   - insert_data (utils.py): batched bulk insert with statistics        *)
(*   - create_embeddings.main / process_embedding_batch: embedding pass   *)
(*   - drop_vector_indexes + create_*_vector_index: index replacement     *)
(* The document store and the embedding service are external; every       *)
(* outcome they can produce for a request is a nondeterministic choice.   *)
(***************************************************************************)
EXTENDS Integers, Sequences, FiniteSets, TLC

(* ---------------------------- bounds ---------------------------------- *)
MaxDocs == 10
MaxBatch == 5
MaxEmbedDocs == 3
MaxEmbedBatch == 3
MaxCalls == 2

\* Vector search: documents the index holds, distinct similarity scores, and
\* the largest top_k a caller passes.
MaxHits == 4
MaxScore == 2
MaxTopK == 3

\* Documents in the data file of a script's main, and in the collection
\* before the run.
MaxMainDocs == 2

(* ---------------------------- helpers --------------------------------- *)
Min(a, b) == IF a < b THEN a ELSE b

\* Python slice s[lo:hi] for 0 <= lo: the elements at 0-based positions
\* lo .. min(hi, len(s)) - 1, empty when lo is past the end.
Slice(s, lo, hi) == SubSeq(s, lo + 1, Min(hi, Len(s)))

\* The orders in which a store can list the elements of the set S.
Orderings(S) ==
    {s \in [1..Cardinality(S) -> S] :
        \A j, k \in 1..Cardinality(S) : j # k => s[j] # s[k]}

(* ------------------------- documents ---------------------------------- *)
\* Values of the field to embed: the key is missing, the value is falsy
\* (empty string), or it is a non-empty text.
Absent == "absent"
Texts == {"a", "b"}
TextValues == {Absent, ""} \cup Texts
\* The vector field: missing, or a vector already in the input file before
\* any embedding call (vectors returned by the service are <<bn, k>>, bn >= 1).
NoVector == <<>>
OldVector == <<0, 0>>

VARIABLES
    ins_pc,          \* position of insert_data: "idle", "loop", "done"
    ins_data,        \* the data argument: sequence of document ids
    ins_batch_size,  \* the batch_size argument
    ins_i,           \* loop variable i of range(0, total_documents, batch_size)
    inserted_count,
    failed_count,
    stats,           \* the returned dictionary, NoStats before the return
    bulk_requests,   \* the batches handed to collection.bulk_write, in order
    bulk_last,       \* how the store answered the latest bulk_write
    bulk_seen,       \* the kinds of answer the store has given in this run
    persisted,       \* documents of this run the store has persisted
    emb_pc,          \* create_embeddings.main: "idle", "loop", "done", "failed"
    emb_input,       \* the documents as read from the input file
    data,            \* the documents, mutated in place by the pass
    emb_batch_size,  \* config['batch_size']
    emb_i,           \* loop variable i of range(0, len(data), batch_size)
    emb_batches,     \* the index ranges <<lo, hi>> of the batches processed
    embed_calls,     \* requests sent to the embedding service, in order
    embed_last,      \* outcome of the latest request: "none", "ok", "raised"
    sleeps,          \* batch numbers after which time.sleep(1) ran
    emb_events,      \* what the loop has done, in order: <<"batch", n>> for
                     \*   process_embedding_batch, <<"sleep", n>> for the pause
    output_file,     \* content of the output file, NotWritten before
    idx_pc,          \* create_*_vector_index: "idle", "list", "drop",
                     \*   "create", "returned", "raised"
    idx_algo,        \* which of the three create functions is running
    indexes,         \* the index descriptors of the collection (store)
    vector_indexes,  \* names found by the listing and not yet dropped
    listed,          \* names of the vector indexes found by the listing
    drop_requests,   \* names passed to collection.drop_index in this call
    create_requests, \* index names sent in createIndexes commands, in order
    idx_calls,       \* calls that have returned so far
    idx_before,      \* the index descriptors when the current call began
    drop_error,      \* request of the drop phase that raised and was
                     \*   swallowed: "none", "list", "drop"
    drop_count,      \* drop_index requests made in this call
    store_error,     \* what the store raised for createIndexes, or NoError
    idx_error,       \* the exception leaving the create function, or NoError
    guidance,        \* the tier remediation text has been printed
    srch_pc,         \* perform_*_vector_search: "idle", "embed", "aggregate",
                     \*   "returned", "raised"
    srch_algo,       \* which of the three search functions is running
    top_k,           \* argument top_k
    tuning,          \* argument ef_search (HNSW) or num_probes (IVF)
    store_hits,      \* store: score of the query against each indexed
                     \*   document, a sequence indexed by document
    query_embeds,    \* embeddings.create calls made by the search
    aggregate_requests, \* pipelines passed to collection.aggregate
    store_results,   \* the documents the cursor yielded, in order
    results,         \* the list the function returned
    srch_cause,      \* what the service or the store raised, or NoError
    srch_error,      \* the exception leaving the search function, or NoError
    main_pc,         \* main: "idle", "get_clients", "openai", "load", "check",
                     \*   "insert", "index", "search", "embed", "finally",
                     \*   "exited"
    main_script,     \* the script whose main runs
    env,             \* which environment variables are set
    clients_created, \* clients constructed so far: "mongo", "openai"
    clients_released, \* clients closed so far
    in_locals,       \* mongo_client is bound in main's locals
    main_data,       \* the loaded documents: TRUE for a document that has
                     \*   the vector field
    main_store,      \* the collection: number of documents, and whether it
                     \*   has a vector index on the field
    store_before,    \* the collection as the run began
    main_requests,   \* what main has asked of the store, in order
    main_inserted,   \* stats['inserted'] of insert_data
    main_submitted,  \* the documents passed to insert_data
    main_searches,   \* searches made so far
    main_error,      \* the exception main re-raises, or NoError
    race_pc,         \* two concurrent create calls, per caller: "idle",
                     \*   "list", "drop", "create", "returned", "raised"
    race_algo,       \* per caller, the create function it runs
    race_indexes,    \* the index descriptors of the shared collection
    race_before,     \* the index descriptors before either call
    race_todo,       \* per caller, names listed and not yet dropped
    no_index_seen    \* the field had a vector index before the calls and
                     \*   has been without one at some moment since

insVars == <<ins_pc, ins_data, ins_batch_size, ins_i, inserted_count,
             failed_count, stats, bulk_requests, bulk_last, bulk_seen,
             persisted>>

embVars == <<emb_pc, emb_input, data, emb_batch_size, emb_i, emb_batches,
             embed_calls, embed_last, sleeps, emb_events, output_file>>

idxVars == <<idx_pc, idx_algo, indexes, vector_indexes, listed,
             drop_requests, create_requests, idx_calls, idx_before,
             drop_error, drop_count, store_error, idx_error, guidance>>

srchVars == <<srch_pc, srch_algo, top_k, tuning, store_hits, query_embeds,
              aggregate_requests, store_results, results, srch_cause,
              srch_error>>

mainVars == <<main_pc, main_script, env, clients_created, clients_released,
              in_locals, main_data, main_store, store_before, main_requests,
              main_inserted, main_submitted, main_searches, main_error>>

raceVars == <<race_pc, race_algo, race_indexes, race_before, race_todo,
              no_index_seen>>

vars == <<insVars, embVars, idxVars, srchVars, mainVars, raceVars>>

NoStats == [total |-> -1, inserted |-> -1, failed |-> -1]

total_documents == Len(ins_data)

(* ------------------------- insert_data -------------------------------- *)
\* Entry of insert_data: counters zeroed, loop not yet started. batch_size
\* is a size, an integer >= 1: range() rejects 0 and iterates over nothing
\* for a negative step.
InsertInit ==
    /\ ins_pc = "loop"
    /\ \E n \in 0..MaxDocs : ins_data = [k \in 1..n |-> k]
    /\ ins_batch_size \in 1..MaxBatch
    /\ ins_i = 0
    /\ inserted_count = 0
    /\ failed_count = 0
    /\ stats = NoStats
    /\ bulk_requests = <<>>
    /\ bulk_last = "none"
    /\ bulk_seen = {}
    /\ persisted = 0

InsertIdle ==
    /\ ins_pc = "idle"
    /\ ins_data = <<>>
    /\ ins_batch_size = 1
    /\ ins_i = 0
    /\ inserted_count = 0
    /\ failed_count = 0
    /\ stats = NoStats
    /\ bulk_requests = <<>>
    /\ bulk_last = "none"
    /\ bulk_seen = {}
    /\ persisted = 0

\* Variant: the slice stops one element early, data[i:i + batch_size - 1].
InsertBatchShort == Slice(ins_data, ins_i, ins_i + ins_batch_size - 1)

\* batch = data[i:i + batch_size]
InsertBatch == Slice(ins_data, ins_i, ins_i + ins_batch_size)

\* The part common to every iteration: the request is sent and the loop
\* variable advances to the next element of the range.
InsertSubmit ==
    /\ ins_pc = "loop"
    /\ ins_i < total_documents
    /\ bulk_requests' = Append(bulk_requests, InsertBatch)
    /\ ins_i' = ins_i + ins_batch_size
    /\ UNCHANGED <<ins_pc, ins_data, ins_batch_size, stats>>

\* bulk_write returns: every operation of the batch was applied.
InsertBatchOk ==
    /\ InsertSubmit
    /\ bulk_last' = "ok"
    /\ bulk_seen' = bulk_seen \cup {"ok"}
    /\ persisted' = persisted + Len(InsertBatch)
    /\ inserted_count' = inserted_count + Len(InsertBatch)
    /\ UNCHANGED failed_count

\* Variant: the handler counts the whole batch as failed although
\* nInserted of its documents were inserted.
InsertBatchWriteErrorAllFailed ==
    /\ InsertSubmit
    /\ \E nInserted \in 0..Len(InsertBatch) :
        /\ bulk_last' = "write_error"
        /\ bulk_seen' = bulk_seen \cup {"write_error"}
        /\ persisted' = persisted + nInserted
        /\ inserted_count' = inserted_count + nInserted
        /\ failed_count' = failed_count + Len(InsertBatch)

\* Variant: the handler subtracts from the batch_size argument instead of
\* len(batch).
InsertBatchWriteErrorBatchSize ==
    /\ InsertSubmit
    /\ \E nInserted \in 0..Len(InsertBatch) :
        /\ bulk_last' = "write_error"
        /\ bulk_seen' = bulk_seen \cup {"write_error"}
        /\ persisted' = persisted + nInserted
        /\ inserted_count' = inserted_count + nInserted
        /\ failed_count' = failed_count + (ins_batch_size - nInserted)

\* bulk_write raises BulkWriteError: nInserted documents were applied.
InsertBatchWriteError ==
    /\ InsertSubmit
    /\ \E nInserted \in 0..Len(InsertBatch) :
        /\ bulk_last' = "write_error"
        /\ bulk_seen' = bulk_seen \cup {"write_error"}
        /\ persisted' = persisted + nInserted
        /\ inserted_count' = inserted_count + nInserted
        /\ failed_count' = failed_count + (Len(InsertBatch) - nInserted)

\* Variant: no except clause for other exceptions, the error leaves
\* insert_data.
InsertBatchExceptionAborts ==
    /\ ins_pc = "loop"
    /\ ins_i < total_documents
    /\ bulk_requests' = Append(bulk_requests, InsertBatch)
    /\ \E applied \in 0..Len(InsertBatch) :
        /\ bulk_last' = "exception"
        /\ bulk_seen' = bulk_seen \cup {"exception"}
        /\ persisted' = persisted + applied
    /\ ins_pc' = "raised"
    /\ UNCHANGED <<ins_data, ins_batch_size, ins_i, inserted_count,
                   failed_count, stats>>

\* Variant: after an exception the same batch is sent a second time before
\* it is counted as failed.
InsertBatchExceptionRetried ==
    /\ ins_pc = "loop"
    /\ ins_i < total_documents
    /\ bulk_requests' = bulk_requests \o <<InsertBatch, InsertBatch>>
    /\ ins_i' = ins_i + ins_batch_size
    /\ \E applied \in 0..Len(InsertBatch) :
        /\ bulk_last' = "exception"
        /\ bulk_seen' = bulk_seen \cup {"exception"}
        /\ persisted' = persisted + applied
        /\ failed_count' = failed_count + Len(InsertBatch)
        /\ UNCHANGED inserted_count
    /\ UNCHANGED <<ins_pc, ins_data, ins_batch_size, stats>>

\* bulk_write raises any other exception; the request may or may not have
\* reached the store (a socket timeout can follow an applied write).
InsertBatchException ==
    /\ InsertSubmit
    /\ \E applied \in 0..Len(InsertBatch) :
        /\ bulk_last' = "exception"
        /\ bulk_seen' = bulk_seen \cup {"exception"}
        /\ persisted' = persisted + applied
        /\ failed_count' = failed_count + Len(InsertBatch)
        /\ UNCHANGED inserted_count

\* The range is exhausted: build and return the statistics.
InsertReturn ==
    /\ ins_pc = "loop"
    /\ ins_i >= total_documents
    /\ stats' = [total |-> total_documents,
                 inserted |-> inserted_count,
                 failed |-> failed_count]
    /\ ins_pc' = "done"
    /\ UNCHANGED <<ins_data, ins_batch_size, ins_i, inserted_count,
                   failed_count, bulk_requests, bulk_last, bulk_seen,
                   persisted>>

(* --------------------- create_embeddings.py --------------------------- *)
NotWritten == <<"not written">>

Documents == [text : TextValues, vec : {NoVector, OldVector}]

EmbedInit ==
    /\ emb_pc = "loop"
    /\ \E n \in 0..MaxEmbedDocs : emb_input \in [1..n -> Documents]
    /\ data = emb_input
    /\ emb_batch_size \in 1..MaxEmbedBatch
    /\ emb_i = 0
    /\ emb_batches = <<>>
    /\ embed_calls = <<>>
    /\ embed_last = "none"
    /\ sleeps = <<>>
    /\ emb_events = <<>>
    /\ output_file = NotWritten

EmbedIdle ==
    /\ emb_pc = "idle"
    /\ emb_input = <<>>
    /\ data = <<>>
    /\ emb_batch_size = 1
    /\ emb_i = 0
    /\ emb_batches = <<>>
    /\ embed_calls = <<>>
    /\ embed_last = "none"
    /\ sleeps = <<>>
    /\ emb_events = <<>>
    /\ output_file = NotWritten

\* batch = data[i:i + batch_size] covers the 1-based positions
\* EmbedLo + 1 .. EmbedHi; batch_num = (i // batch_size) + 1.
EmbedLo == emb_i
EmbedHi == Min(emb_i + emb_batch_size, Len(data))
EmbedBatchNum == (emb_i \div emb_batch_size) + 1

\* Variant: only the presence of the key is tested, not its value.
HasTextKey(document) == document.text # Absent

\* field_to_embed in document and document[field_to_embed]
HasText(document) == document.text # Absent /\ document.text # ""

\* indices_with_text of process_embedding_batch, as 1-based positions of
\* the batch data[lo+1 .. hi]: the documents that have text, in order.
IndicesWithText(docs, lo, hi) ==
    SelectSeq([k \in 1..(hi - lo) |-> lo + k], LAMBDA p : HasText(docs[p]))

\* texts_to_embed: the texts of those documents, in the same order.
TextsToEmbed(docs, lo, hi) ==
    LET idx == IndicesWithText(docs, lo, hi)
    IN [k \in 1..Len(idx) |-> docs[idx[k]].text]

\* The embedding service answers one vector per text, in order; the vector
\* of the k-th text of the call made for batch number bn is <<bn, k>>.
Embeddings(bn, texts) == [k \in 1..Len(texts) |-> <<bn, k>>]

\* Variant: the embedding index is used as the document index,
\* data_batch[embedding_idx][embedded_field] = embeddings[embedding_idx].
AddEmbeddingsByPosition(docs, idx, embeddings) ==
    [p \in 1..Len(docs) |->
        IF p - EmbedLo \in 1..Len(idx)
        THEN [docs[p] EXCEPT !.vec = embeddings[p - EmbedLo]]
        ELSE docs[p]]

\* Variant: the document is replaced by one that holds the embedding only.
AddEmbeddingsOnly(docs, idx, embeddings) ==
    [p \in 1..Len(docs) |->
        IF \E k \in 1..Len(idx) : idx[k] = p
        THEN [text |-> Absent,
              vec |-> embeddings[CHOOSE k \in 1..Len(idx) : idx[k] = p]]
        ELSE docs[p]]

\* data_batch[doc_idx][embedded_field] = embeddings[embedding_idx] for each
\* (embedding_idx, doc_idx) of enumerate(indices_with_text).
AddEmbeddings(docs, idx, embeddings) ==
    [p \in 1..Len(docs) |->
        IF \E k \in 1..Len(idx) : idx[k] = p
        THEN [docs[p] EXCEPT !.vec =
                 embeddings[CHOOSE k \in 1..Len(idx) : idx[k] = p]]
        ELSE docs[p]]

\* Variant: the pause is taken after every batch, the last one included.
EmbedAdvanceAlwaysPauses ==
    /\ emb_batches' = Append(emb_batches, <<EmbedLo, EmbedHi>>)
    /\ sleeps' = Append(sleeps, EmbedBatchNum)
    /\ emb_events' = emb_events \o <<<<"batch", EmbedBatchNum>>,
                                      <<"sleep", EmbedBatchNum>>>>
    /\ emb_i' = emb_i + emb_batch_size
    /\ UNCHANGED <<emb_pc, emb_input, emb_batch_size, output_file>>

\* What follows process_embedding_batch in the loop body: the pause unless
\* this was the last batch, then the next element of the range.
EmbedAdvance ==
    /\ emb_batches' = Append(emb_batches, <<EmbedLo, EmbedHi>>)
    /\ sleeps' = IF emb_i + emb_batch_size < Len(data)
                 THEN Append(sleeps, EmbedBatchNum)
                 ELSE sleeps
    /\ emb_events' = emb_events \o <<<<"batch", EmbedBatchNum>>>>
                         \o (IF emb_i + emb_batch_size < Len(data)
                             THEN <<<<"sleep", EmbedBatchNum>>>>
                             ELSE <<>>)
    /\ emb_i' = emb_i + emb_batch_size
    /\ UNCHANGED <<emb_pc, emb_input, emb_batch_size, output_file>>

\* One iteration whose batch has texts and whose embedding call succeeds.
EmbedBatchOk ==
    /\ emb_pc = "loop"
    /\ emb_i < Len(data)
    /\ TextsToEmbed(data, EmbedLo, EmbedHi) # <<>>
    /\ LET texts == TextsToEmbed(data, EmbedLo, EmbedHi)
       IN /\ embed_calls' = Append(embed_calls,
                                   [batch_num |-> EmbedBatchNum, texts |-> texts])
          /\ data' = AddEmbeddings(data, IndicesWithText(data, EmbedLo, EmbedHi),
                                   Embeddings(EmbedBatchNum, texts))
    /\ embed_last' = "ok"
    /\ EmbedAdvance

\* Variant: the service is called although the batch has no text.
EmbedBatchNoTextsCalls ==
    /\ emb_pc = "loop"
    /\ emb_i < Len(data)
    /\ TextsToEmbed(data, EmbedLo, EmbedHi) = <<>>
    /\ embed_calls' = Append(embed_calls,
                             [batch_num |-> EmbedBatchNum, texts |-> <<>>])
    /\ embed_last' = "ok"
    /\ UNCHANGED data
    /\ EmbedAdvance

\* One iteration whose batch has no text at all: no call is made.
EmbedBatchNoTexts ==
    /\ emb_pc = "loop"
    /\ emb_i < Len(data)
    /\ TextsToEmbed(data, EmbedLo, EmbedHi) = <<>>
    /\ UNCHANGED <<data, embed_calls, embed_last>>
    /\ EmbedAdvance

\* Variant: the error of the embedding call is caught and the loop goes on.
EmbedBatchRaisesSwallowed ==
    /\ emb_pc = "loop"
    /\ emb_i < Len(data)
    /\ TextsToEmbed(data, EmbedLo, EmbedHi) # <<>>
    /\ embed_calls' = Append(embed_calls,
                             [batch_num |-> EmbedBatchNum,
                              texts |-> TextsToEmbed(data, EmbedLo, EmbedHi)])
    /\ embed_last' = "raised"
    /\ UNCHANGED data
    /\ EmbedAdvance

\* The embedding call raises: create_embeddings re-raises, main prints and
\* re-raises, the loop and the write are abandoned.
EmbedBatchRaises ==
    /\ emb_pc = "loop"
    /\ emb_i < Len(data)
    /\ TextsToEmbed(data, EmbedLo, EmbedHi) # <<>>
    /\ embed_calls' = Append(embed_calls,
                             [batch_num |-> EmbedBatchNum,
                              texts |-> TextsToEmbed(data, EmbedLo, EmbedHi)])
    /\ embed_last' = "raised"
    /\ emb_pc' = "failed"
    /\ UNCHANGED <<emb_input, data, emb_batch_size, emb_i, emb_batches,
                   sleeps, emb_events, output_file>>

\* The range is exhausted: write_file_json(data, output_file) succeeds.
EmbedWrite ==
    /\ emb_pc = "loop"
    /\ emb_i >= Len(data)
    /\ output_file' = data
    /\ emb_pc' = "done"
    /\ UNCHANGED <<emb_input, data, emb_batch_size, emb_i, emb_batches,
                   embed_calls, embed_last, sleeps, emb_events>>

\* write_file_json raises IOError: nothing usable is written, main re-raises.
EmbedWriteRaises ==
    /\ emb_pc = "loop"
    /\ emb_i >= Len(data)
    /\ emb_pc' = "failed"
    /\ UNCHANGED <<emb_input, data, emb_batch_size, emb_i, emb_batches,
                   embed_calls, embed_last, sleeps, emb_events, output_file>>

(* ------------- drop_vector_indexes and create_*_vector_index ---------- *)
Algorithms == {"hnsw", "diskann", "ivf"}
VectorField == "DescriptionVector"
OtherField == "OtherVector"
CosmosSearch == "cosmosSearch"
Ascending == "1"

\* An index descriptor as list_indexes returns it: its name and its key,
\* here one field mapped to a marker.
Index(name, field, marker) ==
    [name |-> name, field |-> field, marker |-> marker]

\* The descriptor sent by each create function: name f"<algo>_index_<field>",
\* key {vector_field: "cosmosSearch"}.
IndexName(algo) == algo \o "_index_" \o VectorField
NewIndex(algo) == Index(IndexName(algo), VectorField, CosmosSearch)

IdIndex == Index("_id_", "_id", Ascending)

\* Indexes a collection may carry besides _id_ when a call starts.
OtherIndexes ==
    {NewIndex(a) : a \in Algorithms}
        \cup {Index("DescriptionVector_1", VectorField, Ascending),
              Index("other_vector_index", OtherField, CosmosSearch)}

\* Variant: the value the key gives the field is not looked at.
IsIndexOn(index, vector_field) == index.field = vector_field

\* 'key' in index and vector_field in index['key']
\*     and index['key'][vector_field] == 'cosmosSearch'
IsVectorIndexOn(index, vector_field) ==
    index.field = vector_field /\ index.marker = CosmosSearch

\* Errors of the createIndexes command: one whose message contains
\* "not enabled for this cluster tier", and any other.
NoError == "none"
TierError == "not enabled for this cluster tier"
OtherError == "other error"
CreateErrors == {TierError, OtherError}

IndexInit ==
    /\ idx_pc = "list"
    /\ idx_algo \in Algorithms
    /\ \E S \in SUBSET OtherIndexes : indexes = {IdIndex} \cup S
    /\ idx_before = indexes
    /\ drop_error = "none"
    /\ drop_count = 0
    /\ store_error = NoError
    /\ idx_error = NoError
    /\ guidance = FALSE
    /\ vector_indexes = <<>>
    /\ listed = {}
    /\ drop_requests = {}
    /\ create_requests = <<>>
    /\ idx_calls = 0

IndexIdle ==
    /\ idx_pc = "idle"
    /\ idx_algo = "hnsw"
    /\ indexes = {IdIndex}
    /\ idx_before = indexes
    /\ drop_error = "none"
    /\ drop_count = 0
    /\ store_error = NoError
    /\ idx_error = NoError
    /\ guidance = FALSE
    /\ vector_indexes = <<>>
    /\ listed = {}
    /\ drop_requests = {}
    /\ create_requests = <<>>
    /\ idx_calls = 0

\* What the create-function steps of the drop phase leave alone.
IndexDropPhaseFrame ==
    UNCHANGED <<idx_algo, create_requests, idx_calls, idx_before,
                store_error, idx_error, guidance>>

\* Variant: the index the call is about to create is dropped by name
\* without looking at what the listing found.
IndexListOkDropsUnlisted ==
    /\ idx_pc = "list"
    /\ LET found == {x.name : x \in {y \in indexes :
                                        IsVectorIndexOn(y, VectorField)}}
       IN /\ vector_indexes' \in Orderings(found \cup {IndexName(idx_algo)})
          /\ listed' = found
          /\ idx_pc' = "drop"
    /\ UNCHANGED <<indexes, drop_requests, drop_error, drop_count>>
    /\ IndexDropPhaseFrame

\* list_indexes succeeds: the names of the vector indexes on the field are
\* collected in the order the store lists them.
IndexListOk ==
    /\ idx_pc = "list"
    /\ LET found == {x.name : x \in {y \in indexes :
                                        IsVectorIndexOn(y, VectorField)}}
       IN /\ vector_indexes' \in Orderings(found)
          /\ listed' = found
          /\ idx_pc' = IF found = {} THEN "create" ELSE "drop"
    /\ UNCHANGED <<indexes, drop_requests, drop_error, drop_count>>
    /\ IndexDropPhaseFrame

\* list_indexes raises: the except clause prints a warning and the create
\* function goes on.
IndexListRaises ==
    /\ idx_pc = "list"
    /\ idx_pc' = "create"
    /\ drop_error' = "list"
    /\ UNCHANGED <<indexes, vector_indexes, listed, drop_requests, drop_count>>
    /\ IndexDropPhaseFrame

\* drop_index(index_name) succeeds for the next name of the list.
IndexDropOk ==
    /\ idx_pc = "drop"
    /\ vector_indexes # <<>>
    /\ drop_requests' = drop_requests \cup {Head(vector_indexes)}
    /\ indexes' = {x \in indexes : x.name # Head(vector_indexes)}
    /\ vector_indexes' = Tail(vector_indexes)
    /\ idx_pc' = IF Tail(vector_indexes) = <<>> THEN "create" ELSE "drop"
    /\ drop_count' = drop_count + 1
    /\ UNCHANGED <<listed, drop_error>>
    /\ IndexDropPhaseFrame

\* Variant: no except clause in drop_vector_indexes, the error of
\* drop_index leaves the create function.
IndexDropRaisesPropagates ==
    /\ idx_pc = "drop"
    /\ vector_indexes # <<>>
    /\ drop_requests' = drop_requests \cup {Head(vector_indexes)}
    /\ drop_count' = drop_count + 1
    /\ idx_pc' = "raised"
    /\ drop_error' = "drop"
    /\ idx_error' = OtherError
    /\ UNCHANGED <<indexes, vector_indexes, listed>>
    /\ UNCHANGED <<idx_algo, create_requests, idx_calls, idx_before,
                   store_error, guidance>>

\* drop_index(index_name) raises: the index stays, the exception leaves the
\* for loop and is caught by the except clause around the whole function.
IndexDropRaises ==
    /\ idx_pc = "drop"
    /\ vector_indexes # <<>>
    /\ drop_requests' = drop_requests \cup {Head(vector_indexes)}
    /\ drop_count' = drop_count + 1
    /\ idx_pc' = "create"
    /\ drop_error' = "drop"
    /\ UNCHANGED <<indexes, vector_indexes, listed>>
    /\ IndexDropPhaseFrame

\* collection.database.command(index_command) succeeds: the store has the
\* index of that name.
IndexCreateOk ==
    /\ idx_pc = "create"
    /\ create_requests' = Append(create_requests, IndexName(idx_algo))
    /\ indexes' = indexes \cup {NewIndex(idx_algo)}
    /\ idx_pc' = "returned"
    /\ idx_calls' = idx_calls + 1
    /\ UNCHANGED <<idx_algo, vector_indexes, listed, drop_requests, idx_before,
                   drop_error, drop_count, store_error, idx_error, guidance>>

\* The tier check exists in create_diskann_vector_index only:
\* "not enabled for this cluster tier" in str(e).
PrintsGuidance(algo, e) == algo = "diskann" /\ e = TierError

\* Variant: the except clause raises a new error built from the message.
IndexCreateRaisesWrapped ==
    /\ idx_pc = "create"
    /\ create_requests' = Append(create_requests, IndexName(idx_algo))
    /\ \E e \in CreateErrors :
        /\ store_error' = e
        /\ idx_error' = "wrapped: " \o e
        /\ guidance' = PrintsGuidance(idx_algo, e)
    /\ idx_pc' = "raised"
    /\ UNCHANGED <<idx_algo, indexes, vector_indexes, listed, drop_requests,
                   idx_calls, idx_before, drop_error, drop_count>>

\* Variant: the except clause puts back the indexes the drop phase removed.
IndexCreateRaisesRestores ==
    /\ idx_pc = "create"
    /\ create_requests' = Append(create_requests, IndexName(idx_algo))
    /\ \E e \in CreateErrors :
        /\ store_error' = e
        /\ idx_error' = e
        /\ guidance' = PrintsGuidance(idx_algo, e)
    /\ indexes' = idx_before
    /\ idx_pc' = "raised"
    /\ UNCHANGED <<idx_algo, vector_indexes, listed, drop_requests,
                   idx_calls, idx_before, drop_error, drop_count>>

\* The command raises: the except clause prints, for DiskANN adds the tier
\* guidance, and re-raises the exception it caught.
IndexCreateRaises ==
    /\ idx_pc = "create"
    /\ create_requests' = Append(create_requests, IndexName(idx_algo))
    /\ \E e \in CreateErrors :
        /\ store_error' = e
        /\ idx_error' = e
        /\ guidance' = PrintsGuidance(idx_algo, e)
    /\ idx_pc' = "raised"
    /\ UNCHANGED <<idx_algo, indexes, vector_indexes, listed, drop_requests,
                   idx_calls, idx_before, drop_error, drop_count>>

\* A further create function is called on the same collection and field.
IndexCallAgain ==
    /\ idx_pc = "returned"
    /\ idx_calls < MaxCalls
    /\ idx_algo' \in Algorithms
    /\ idx_pc' = "list"
    /\ vector_indexes' = <<>>
    /\ listed' = {}
    /\ drop_requests' = {}
    /\ idx_before' = indexes
    /\ drop_error' = "none"
    /\ drop_count' = 0
    /\ UNCHANGED <<indexes, create_requests, idx_calls, store_error,
                   idx_error, guidance>>

(* ------------------------- vector search ------------------------------ *)
\* perform_hnsw_vector_search, perform_diskann_vector_search and
\* perform_ivf_vector_search: embed the query text, run one aggregation with
\* a $search stage, return list(cursor).  The three differ in their
\* $project stage and in a tuning argument that the pipeline never uses.

QueryEmbedding == <<"query embedding">>
EmbedError == "embedding error"
QueryError == "query error"

\* Values of ef_search / num_probes; perform_diskann_vector_search has no
\* such argument.
TuningValues(algo) ==
    CASE algo = "hnsw" -> {16, 32}
      [] algo = "ivf" -> {5, 10}
      [] OTHER -> {0}

\* Variant: the tuning argument of the call is passed on in the stage.
SearchPipelineTuned(query_embedding, vector_field, k) ==
    [vector |-> query_embedding, path |-> vector_field, k |-> k + tuning]

\* The $search stage: "vector": query_embedding, "path": vector_field,
\* "k": top_k.
\* Variant: the stage is built without the caller's top_k, the store is
\* asked for every hit.
SearchPipelineNoLimit(query_embedding, vector_field, k) ==
    [vector |-> query_embedding, path |-> vector_field, k |-> MaxHits + 1]

SearchPipeline(query_embedding, vector_field, k) ==
    [vector |-> query_embedding, path |-> vector_field, k |-> k]

\* A projected result: the document and its "score" ($meta searchScore).
Hit(hits, d) == [id |-> d, score |-> hits[d]]

\* Store: what a cosmosSearch aggregation may yield for a pipeline: at most
\* k distinct indexed documents in order of non-increasing score.  The
\* index is approximate, so any such selection is possible.
StoreAnswers(hits, pipeline) ==
    LET n == Len(hits)
        picks == UNION {[1..m -> 1..n] : m \in 0..Min(pipeline.k, n)}
    IN {[i \in DOMAIN f |-> Hit(hits, f[i])] : f \in
          {g \in picks :
              /\ \A i, j \in DOMAIN g : i # j => g[i] # g[j]
              /\ \A i, j \in DOMAIN g : i < j => hits[g[i]] >= hits[g[j]]}}

\* Variant: the list is returned in reverse order.
ListOfReversed(cursor) ==
    [i \in 1..Len(cursor) |-> cursor[Len(cursor) + 1 - i]]

\* list(cursor): the yielded documents in the order yielded.
ListOf(cursor) == [i \in 1..Len(cursor) |-> cursor[i]]

\* A call of a search function.  The scores of the indexed documents are
\* numbered so that they do not increase with the document number.
SearchInit ==
    /\ srch_pc = "embed"
    /\ srch_algo \in Algorithms
    /\ top_k \in 1..MaxTopK
    /\ tuning \in TuningValues(srch_algo)
    /\ \E n \in 0..MaxHits :
        /\ store_hits \in [1..n -> 1..MaxScore]
        /\ \A i, j \in 1..n : i < j => store_hits[i] >= store_hits[j]
    /\ query_embeds = 0
    /\ aggregate_requests = <<>>
    /\ store_results = <<>>
    /\ results = <<>>
    /\ srch_cause = NoError
    /\ srch_error = NoError

SearchIdle ==
    /\ srch_pc = "idle"
    /\ srch_algo = "hnsw"
    /\ top_k = 1
    /\ tuning = 16
    /\ store_hits = <<>>
    /\ query_embeds = 0
    /\ aggregate_requests = <<>>
    /\ store_results = <<>>
    /\ results = <<>>
    /\ srch_cause = NoError
    /\ srch_error = NoError

\* embeddings.create(input=[query_text]) returns a vector.
SearchEmbedOk ==
    /\ srch_pc = "embed"
    /\ query_embeds' = query_embeds + 1
    /\ srch_pc' = "aggregate"
    /\ UNCHANGED <<srch_algo, top_k, tuning, store_hits, aggregate_requests,
                   store_results, results, srch_cause, srch_error>>

\* Variant: a failed query embedding is replaced by a default vector and
\* the search goes on.
SearchEmbedRaisesContinues ==
    /\ srch_pc = "embed"
    /\ query_embeds' = query_embeds + 1
    /\ srch_cause' = EmbedError
    /\ srch_pc' = "aggregate"
    /\ UNCHANGED <<srch_algo, top_k, tuning, store_hits, aggregate_requests,
                   store_results, results, srch_error>>

\* embeddings.create raises (or its response holds no embedding): the
\* except clause prints and re-raises.
SearchEmbedRaises ==
    /\ srch_pc = "embed"
    /\ query_embeds' = query_embeds + 1
    /\ srch_cause' = EmbedError
    /\ srch_error' = EmbedError
    /\ srch_pc' = "raised"
    /\ UNCHANGED <<srch_algo, top_k, tuning, store_hits, aggregate_requests,
                   store_results, results>>

\* collection.aggregate(pipeline) succeeds and the cursor is read to its end.
SearchAggregateOk ==
    /\ srch_pc = "aggregate"
    /\ LET pipeline == SearchPipeline(QueryEmbedding, VectorField, top_k)
       IN /\ aggregate_requests' = Append(aggregate_requests, pipeline)
          /\ store_results' \in StoreAnswers(store_hits, pipeline)
    /\ results' = ListOf(store_results')
    /\ srch_pc' = "returned"
    /\ UNCHANGED <<srch_algo, top_k, tuning, store_hits, query_embeds,
                   srch_cause, srch_error>>

\* aggregate, or reading the cursor, raises: the except clause prints and
\* re-raises; nothing is returned.
SearchAggregateRaises ==
    /\ srch_pc = "aggregate"
    /\ LET pipeline == SearchPipeline(QueryEmbedding, VectorField, top_k)
       IN aggregate_requests' = Append(aggregate_requests, pipeline)
    /\ srch_cause' = QueryError
    /\ srch_error' = QueryError
    /\ srch_pc' = "raised"
    /\ UNCHANGED <<srch_algo, top_k, tuning, store_hits, query_embeds,
                   store_results, results>>

(* ------------------------- the scripts' main -------------------------- *)
\* main of hnsw.py, diskann.py, ivf.py and create_embeddings.py, with
\* get_clients / get_clients_passwordless unfolded into its steps.  The
\* operations main calls (insert_data, the create functions, the search
\* functions, the embedding loop) appear here as one step each, with the
\* outcomes that matter to main.

Scripts == Algorithms \cup {"create_embeddings"}

\* hnsw.py calls get_clients_passwordless, the others get_clients.
Passwordless(script) == script = "hnsw"

ConfigMissing == "configuration missing"
ConstructionError == "client construction failed"
LoadError == "load failed"
NoEmbeddings == "no documents with embeddings"
ClearError == "delete_many failed"
NothingInserted == "no documents inserted"
IndexError == "create index failed"
SearchError == "search failed"
EmbedPassError == "embedding pass failed"

\* The Azure OpenAI settings get_clients requires are not all there:
\* endpoint and key, for get_clients_passwordless the endpoint only.
OpenAIConfigMissing(script, e) ==
    IF Passwordless(script) THEN ~e.endpoint ELSE ~e.endpoint \/ ~e.key

\* Searches main makes: one query in hnsw.py, three sample queries in
\* diskann.py, and in ivf.py three scenarios with 3, 2 and 2 probe values.
SearchCount(script) ==
    CASE script = "hnsw" -> 1
      [] script = "diskann" -> 3
      [] script = "ivf" -> 3 + 2 + 2
      [] OTHER -> 0

\* documents_with_embeddings = [doc for doc in data if vector_field in doc]
documents_with_embeddings == SelectSeq(main_data, LAMBDA has_vector : has_vector)

MainInit ==
    /\ main_pc = "get_clients"
    /\ main_script \in Scripts
    /\ env \in [mongo : BOOLEAN, endpoint : BOOLEAN, key : BOOLEAN]
    /\ clients_created = {}
    /\ clients_released = {}
    /\ in_locals = FALSE
    /\ \E n \in 0..MaxMainDocs : main_data \in [1..n -> BOOLEAN]
    /\ main_store \in [docs : 0..MaxMainDocs, index : BOOLEAN]
    /\ store_before = main_store
    /\ main_requests = <<>>
    /\ main_inserted = 0
    /\ main_submitted = <<>>
    /\ main_searches = 0
    /\ main_error = NoError

MainIdle ==
    /\ main_pc = "idle"
    /\ main_script = "hnsw"
    /\ env = [mongo |-> TRUE, endpoint |-> TRUE, key |-> TRUE]
    /\ clients_created = {}
    /\ clients_released = {}
    /\ in_locals = FALSE
    /\ main_data = <<>>
    /\ main_store = [docs |-> 0, index |-> FALSE]
    /\ store_before = main_store
    /\ main_requests = <<>>
    /\ main_inserted = 0
    /\ main_submitted = <<>>
    /\ main_searches = 0
    /\ main_error = NoError

\* What never changes during a run.
MainInputs == UNCHANGED <<main_script, env, main_data, store_before>>

\* An exception reaches main's except clause, which prints and re-raises;
\* the finally clause runs next.
MainRaise(e) ==
    /\ main_error' = e
    /\ main_pc' = "finally"

\* get_clients: MONGO_CONNECTION_STRING is not set.
GetClientsMongoMissing ==
    /\ main_pc = "get_clients"
    /\ ~env.mongo
    /\ MainRaise(ConfigMissing)
    /\ MainInputs
    /\ UNCHANGED <<clients_created, clients_released, in_locals, main_store,
                   main_requests, main_inserted, main_submitted, main_searches>>

\* get_clients: the connection string is set and MongoClient(...) is
\* constructed, before the Azure OpenAI settings are read.
GetClientsMongoClient ==
    /\ main_pc = "get_clients"
    /\ env.mongo
    /\ clients_created' = clients_created \cup {"mongo"}
    /\ main_pc' = "openai"
    /\ MainInputs
    /\ UNCHANGED <<clients_released, in_locals, main_store, main_requests,
                   main_inserted, main_submitted, main_searches, main_error>>

\* get_clients: the constructor of MongoClient raises (an invalid
\* connection string, for get_clients_passwordless also the credential).
GetClientsMongoClientRaises ==
    /\ main_pc = "get_clients"
    /\ env.mongo
    /\ MainRaise(ConstructionError)
    /\ MainInputs
    /\ UNCHANGED <<clients_created, clients_released, in_locals, main_store,
                   main_requests, main_inserted, main_submitted, main_searches>>

\* get_clients: an Azure OpenAI setting is missing; the ValueError leaves
\* get_clients, whose MongoClient is a local of get_clients only.
GetClientsOpenAIMissing ==
    /\ main_pc = "openai"
    /\ OpenAIConfigMissing(main_script, env)
    /\ MainRaise(ConfigMissing)
    /\ MainInputs
    /\ UNCHANGED <<clients_created, clients_released, in_locals, main_store,
                   main_requests, main_inserted, main_submitted, main_searches>>

\* get_clients: AzureOpenAI(...) is constructed and both clients are
\* returned and bound in main.
GetClientsOpenAIClient ==
    /\ main_pc = "openai"
    /\ ~OpenAIConfigMissing(main_script, env)
    /\ clients_created' = clients_created \cup {"openai"}
    /\ in_locals' = TRUE
    /\ main_pc' = "load"
    /\ MainInputs
    /\ UNCHANGED <<clients_released, main_store, main_requests, main_inserted, main_submitted,
                   main_searches, main_error>>

\* read_file_return_json returns the documents.
MainLoadOk ==
    /\ main_pc = "load"
    /\ main_pc' = IF main_script = "create_embeddings" THEN "embed" ELSE "check"
    /\ MainInputs
    /\ UNCHANGED <<clients_created, clients_released, in_locals, main_store,
                   main_requests, main_inserted, main_submitted, main_searches, main_error>>

\* read_file_return_json raises.
MainLoadRaises ==
    /\ main_pc = "load"
    /\ MainRaise(LoadError)
    /\ MainInputs
    /\ UNCHANGED <<clients_created, clients_released, in_locals, main_store,
                   main_requests, main_inserted, main_submitted, main_searches>>

\* create_embeddings.py: the batch loop and write_file_json finish.
MainEmbedPassOk ==
    /\ main_pc = "embed"
    /\ main_pc' = "finally"
    /\ MainInputs
    /\ UNCHANGED <<clients_created, clients_released, in_locals, main_store,
                   main_requests, main_inserted, main_submitted, main_searches, main_error>>

\* create_embeddings.py: an embedding call or the write raises.
MainEmbedPassRaises ==
    /\ main_pc = "embed"
    /\ MainRaise(EmbedPassError)
    /\ MainInputs
    /\ UNCHANGED <<clients_created, clients_released, in_locals, main_store,
                   main_requests, main_inserted, main_submitted, main_searches>>

\* if not documents_with_embeddings: raise ValueError
MainNoEmbeddings ==
    /\ main_pc = "check"
    /\ documents_with_embeddings = <<>>
    /\ MainRaise(NoEmbeddings)
    /\ MainInputs
    /\ UNCHANGED <<clients_created, clients_released, in_locals, main_store,
                   main_requests, main_inserted, main_submitted, main_searches>>

\* Variant: the collection is cleared before the loaded documents are
\* looked at.
MainClearUnchecked ==
    /\ main_pc = "check"
    /\ main_requests' = Append(main_requests, "delete_many")
    /\ main_store' = [main_store EXCEPT !.docs = 0]
    /\ main_pc' = "insert"
    /\ MainInputs
    /\ UNCHANGED <<clients_created, clients_released, in_locals, main_inserted, main_submitted,
                   main_searches, main_error>>

\* Some document has the vector field: collection.delete_many({}) empties
\* the collection.
MainClear ==
    /\ main_pc = "check"
    /\ documents_with_embeddings # <<>>
    /\ main_requests' = Append(main_requests, "delete_many")
    /\ main_store' = [main_store EXCEPT !.docs = 0]
    /\ main_pc' = "insert"
    /\ MainInputs
    /\ UNCHANGED <<clients_created, clients_released, in_locals, main_inserted, main_submitted,
                   main_searches, main_error>>

\* delete_many raises; the store may or may not have applied it.
MainClearRaises ==
    /\ main_pc = "check"
    /\ documents_with_embeddings # <<>>
    /\ main_requests' = Append(main_requests, "delete_many")
    /\ main_store' \in {main_store, [main_store EXCEPT !.docs = 0]}
    /\ MainRaise(ClearError)
    /\ MainInputs
    /\ UNCHANGED <<clients_created, clients_released, in_locals, main_inserted, main_submitted,
                   main_searches>>

\* stats = insert_data(collection, documents_with_embeddings, batch_size):
\* it never raises; it reports some of the documents as inserted, and the
\* store holds at least those.
MainInsert ==
    /\ main_pc = "insert"
    /\ main_requests' = Append(main_requests, "insert_data")
    /\ main_submitted' = documents_with_embeddings
    /\ \E inserted \in 0..Len(documents_with_embeddings) :
        /\ main_inserted' = inserted
        /\ \E held \in inserted..Len(documents_with_embeddings) :
              main_store' = [main_store EXCEPT !.docs = held]
    /\ main_pc' = "index"
    /\ MainInputs
    /\ UNCHANGED <<clients_created, clients_released, in_locals, main_searches,
                   main_error>>

\* if stats['inserted'] == 0: raise ValueError
MainNothingInserted ==
    /\ main_pc = "index"
    /\ main_inserted = 0
    /\ MainRaise(NothingInserted)
    /\ MainInputs
    /\ UNCHANGED <<clients_created, clients_released, in_locals, main_store,
                   main_requests, main_inserted, main_submitted, main_searches>>

\* Variant: the create function is called whatever insert_data reported.
MainCreateIndexUnchecked ==
    /\ main_pc = "index"
    /\ main_requests' = Append(main_requests, "create_index")
    /\ main_store' = [main_store EXCEPT !.index = TRUE]
    /\ main_pc' = "search"
    /\ MainInputs
    /\ UNCHANGED <<clients_created, clients_released, in_locals, main_inserted,
                   main_submitted, main_searches, main_error>>

\* The create function of the script returns: the index exists.
MainCreateIndexOk ==
    /\ main_pc = "index"
    /\ main_inserted > 0
    /\ main_requests' = Append(main_requests, "create_index")
    /\ main_store' = [main_store EXCEPT !.index = TRUE]
    /\ main_pc' = "search"
    /\ MainInputs
    /\ UNCHANGED <<clients_created, clients_released, in_locals, main_inserted, main_submitted,
                   main_searches, main_error>>

\* The create function raises; its drop phase may have removed the index
\* the collection had.
MainCreateIndexRaises ==
    /\ main_pc = "index"
    /\ main_inserted > 0
    /\ main_requests' = Append(main_requests, "create_index")
    /\ main_store' \in {main_store, [main_store EXCEPT !.index = FALSE]}
    /\ MainRaise(IndexError)
    /\ MainInputs
    /\ UNCHANGED <<clients_created, clients_released, in_locals, main_inserted, main_submitted,
                   main_searches>>

\* One call of the script's search function returns.
MainSearchOk ==
    /\ main_pc = "search"
    /\ main_searches < SearchCount(main_script)
    /\ main_requests' = Append(main_requests, "search")
    /\ main_searches' = main_searches + 1
    /\ MainInputs
    /\ UNCHANGED <<main_pc, clients_created, clients_released, in_locals,
                   main_store, main_inserted, main_submitted, main_error>>

\* One call of the script's search function raises.
MainSearchRaises ==
    /\ main_pc = "search"
    /\ main_searches < SearchCount(main_script)
    /\ main_requests' = Append(main_requests, "search")
    /\ main_searches' = main_searches + 1
    /\ MainRaise(SearchError)
    /\ MainInputs
    /\ UNCHANGED <<clients_created, clients_released, in_locals, main_store,
                   main_inserted, main_submitted>>

\* Every search has been made: the try block ends.
MainSearchesDone ==
    /\ main_pc = "search"
    /\ main_searches = SearchCount(main_script)
    /\ main_pc' = "finally"
    /\ MainInputs
    /\ UNCHANGED <<clients_created, clients_released, in_locals, main_store,
                   main_requests, main_inserted, main_submitted, main_searches, main_error>>

\* finally: if 'mongo_client' in locals(): mongo_client.close().  Nothing
\* closes the Azure OpenAI client.
MainFinally ==
    /\ main_pc = "finally"
    /\ clients_released' = IF in_locals
                           THEN clients_released \cup {"mongo"}
                           ELSE clients_released
    /\ main_pc' = "exited"
    /\ MainInputs
    /\ UNCHANGED <<clients_created, in_locals, main_store, main_requests,
                   main_inserted, main_submitted, main_searches, main_error>>

(* ------------------- two concurrent create calls ---------------------- *)
\* Two scripts run at the same time against the same collection and field:
\* each runs its create function (drop_vector_indexes, then createIndexes),
\* and the store serves their requests one at a time in any interleaving.

Callers == {1, 2}

VectorIndexesIn(ixs) == {x \in ixs : IsVectorIndexOn(x, VectorField)}

\* The collection starts with at most one vector index on the field.
RaceInit ==
    /\ race_pc = [c \in Callers |-> "list"]
    /\ race_algo \in [Callers -> Algorithms]
    /\ \E S \in {{}} \cup {{NewIndex(a)} : a \in Algorithms} :
          race_indexes = {IdIndex} \cup S
    /\ race_before = race_indexes
    /\ race_todo = [c \in Callers |-> <<>>]
    /\ no_index_seen = FALSE

RaceIdle ==
    /\ race_pc = [c \in Callers |-> "idle"]
    /\ race_algo = [c \in Callers |-> "hnsw"]
    /\ race_indexes = {IdIndex}
    /\ race_before = race_indexes
    /\ race_todo = [c \in Callers |-> <<>>]
    /\ no_index_seen = FALSE

\* What an observer of the collection notes after a step.
RaceObserve ==
    no_index_seen' = (no_index_seen
                      \/ (VectorIndexesIn(race_before) # {}
                          /\ VectorIndexesIn(race_indexes') = {}))

\* list_indexes succeeds for caller c.
RaceListOk ==
    \E c \in Callers :
        /\ race_pc[c] = "list"
        /\ LET found == {x.name : x \in VectorIndexesIn(race_indexes)}
           IN \E order \in Orderings(found) :
                /\ race_todo' = [race_todo EXCEPT ![c] = order]
                /\ race_pc' = [race_pc EXCEPT
                                 ![c] = IF found = {} THEN "create" ELSE "drop"]
        /\ UNCHANGED <<race_algo, race_indexes, race_before>>
        /\ RaceObserve

\* list_indexes raises for caller c: swallowed, nothing is dropped.
RaceListRaises ==
    \E c \in Callers :
        /\ race_pc[c] = "list"
        /\ race_pc' = [race_pc EXCEPT ![c] = "create"]
        /\ UNCHANGED <<race_algo, race_indexes, race_before, race_todo>>
        /\ RaceObserve

\* drop_index succeeds for caller c: the index was still there.
RaceDropOk ==
    \E c \in Callers :
        /\ race_pc[c] = "drop"
        /\ \E x \in race_indexes : x.name = Head(race_todo[c])
        /\ race_indexes' = {x \in race_indexes : x.name # Head(race_todo[c])}
        /\ race_todo' = [race_todo EXCEPT ![c] = Tail(race_todo[c])]
        /\ race_pc' = [race_pc EXCEPT
                         ![c] = IF Tail(race_todo[c]) = <<>> THEN "create"
                                                             ELSE "drop"]
        /\ UNCHANGED <<race_algo, race_before>>
        /\ RaceObserve

\* drop_index raises for caller c, as it must when the other caller has
\* dropped the index already: swallowed, the remaining names are skipped.
RaceDropRaises ==
    \E c \in Callers :
        /\ race_pc[c] = "drop"
        /\ race_pc' = [race_pc EXCEPT ![c] = "create"]
        /\ UNCHANGED <<race_algo, race_indexes, race_before, race_todo>>
        /\ RaceObserve

\* Variant: the store replaces the indexes of the field by the new one in
\* one step.
RaceCreateOkReplacing ==
    \E c \in Callers :
        /\ race_pc[c] = "create"
        /\ race_indexes' = (race_indexes \ VectorIndexesIn(race_indexes))
                               \cup {NewIndex(race_algo[c])}
        /\ race_pc' = [race_pc EXCEPT ![c] = "returned"]
        /\ UNCHANGED <<race_algo, race_before, race_todo>>
        /\ RaceObserve

\* createIndexes succeeds for caller c; an index of that name and
\* definition that exists already is left as it is.
RaceCreateOk ==
    \E c \in Callers :
        /\ race_pc[c] = "create"
        /\ race_indexes' = race_indexes \cup {NewIndex(race_algo[c])}
        /\ race_pc' = [race_pc EXCEPT ![c] = "returned"]
        /\ UNCHANGED <<race_algo, race_before, race_todo>>
        /\ RaceObserve

\* createIndexes raises for caller c.
RaceCreateRaises ==
    \E c \in Callers :
        /\ race_pc[c] = "create"
        /\ race_pc' = [race_pc EXCEPT ![c] = "raised"]
        /\ UNCHANGED <<race_algo, race_indexes, race_before, race_todo>>
        /\ RaceObserve

(* ------------------------ specification ------------------------------- *)
\* Each behaviour is one run of one operation.
Init ==
    \/ InsertInit /\ EmbedIdle /\ IndexIdle /\ SearchIdle /\ MainIdle /\ RaceIdle
    \/ InsertIdle /\ EmbedInit /\ IndexIdle /\ SearchIdle /\ MainIdle /\ RaceIdle
    \/ InsertIdle /\ EmbedIdle /\ IndexInit /\ SearchIdle /\ MainIdle /\ RaceIdle
    \/ InsertIdle /\ EmbedIdle /\ IndexIdle /\ SearchInit /\ MainIdle /\ RaceIdle
    \/ InsertIdle /\ EmbedIdle /\ IndexIdle /\ SearchIdle /\ MainInit /\ RaceIdle
    \/ InsertIdle /\ EmbedIdle /\ IndexIdle /\ SearchIdle /\ MainIdle /\ RaceInit

\* What the steps of one operation leave alone: the other operations.
InsertFrame == UNCHANGED <<embVars, idxVars, srchVars, mainVars, raceVars>>
EmbedFrame == UNCHANGED <<insVars, idxVars, srchVars, mainVars, raceVars>>
IndexFrame == UNCHANGED <<insVars, embVars, srchVars, mainVars, raceVars>>
SearchFrame == UNCHANGED <<insVars, embVars, idxVars, mainVars, raceVars>>
MainFrame == UNCHANGED <<insVars, embVars, idxVars, srchVars, raceVars>>
RaceFrame == UNCHANGED <<insVars, embVars, idxVars, srchVars, mainVars>>

Next ==
    \/ InsertBatchOk /\ InsertFrame
    \/ InsertBatchWriteError /\ InsertFrame
    \/ InsertBatchException /\ InsertFrame
    \/ InsertReturn /\ InsertFrame
    \/ EmbedBatchOk /\ EmbedFrame
    \/ EmbedBatchNoTexts /\ EmbedFrame
    \/ EmbedBatchRaises /\ EmbedFrame
    \/ EmbedWrite /\ EmbedFrame
    \/ EmbedWriteRaises /\ EmbedFrame
    \/ IndexListOk /\ IndexFrame
    \/ IndexListRaises /\ IndexFrame
    \/ IndexDropOk /\ IndexFrame
    \/ IndexDropRaises /\ IndexFrame
    \/ IndexCreateOk /\ IndexFrame
    \/ IndexCreateRaises /\ IndexFrame
    \/ IndexCallAgain /\ IndexFrame
    \/ SearchEmbedOk /\ SearchFrame
    \/ SearchEmbedRaises /\ SearchFrame
    \/ SearchAggregateOk /\ SearchFrame
    \/ SearchAggregateRaises /\ SearchFrame
    \/ GetClientsMongoMissing /\ MainFrame
    \/ GetClientsMongoClient /\ MainFrame
    \/ GetClientsMongoClientRaises /\ MainFrame
    \/ GetClientsOpenAIMissing /\ MainFrame
    \/ GetClientsOpenAIClient /\ MainFrame
    \/ MainLoadOk /\ MainFrame
    \/ MainLoadRaises /\ MainFrame
    \/ MainEmbedPassOk /\ MainFrame
    \/ MainEmbedPassRaises /\ MainFrame
    \/ MainNoEmbeddings /\ MainFrame
    \/ MainClear /\ MainFrame
    \/ MainClearRaises /\ MainFrame
    \/ MainInsert /\ MainFrame
    \/ MainNothingInserted /\ MainFrame
    \/ MainCreateIndexOk /\ MainFrame
    \/ MainCreateIndexRaises /\ MainFrame
    \/ MainSearchOk /\ MainFrame
    \/ MainSearchRaises /\ MainFrame
    \/ MainSearchesDone /\ MainFrame
    \/ MainFinally /\ MainFrame
    \/ RaceListOk /\ RaceFrame
    \/ RaceListRaises /\ RaceFrame
    \/ RaceDropOk /\ RaceFrame
    \/ RaceDropRaises /\ RaceFrame
    \/ RaceCreateOk /\ RaceFrame
    \/ RaceCreateRaises /\ RaceFrame

Spec == Init /\ [][Next]_vars

(* ============================ claims ================================== *)
\* ceil(n / b), not computed the way the code computes its batch count.
CeilDiv(n, b) == IF n % b = 0 THEN n \div b ELSE (n \div b) + 1

RECURSIVE Flatten(_)
Flatten(ss) == IF ss = <<>> THEN <<>> ELSE Head(ss) \o Flatten(Tail(ss))

IsPrefix(s, t) == Len(s) <= Len(t) /\ s = SubSeq(t, 1, Len(s))

\* The batch just handed to bulk_write by the step being taken.
SubmittedBatch == bulk_requests'[Len(bulk_requests')]
InsertStep == bulk_requests' # bulk_requests

\* C1: whenever insert_data has returned, the statistics satisfy
\* inserted + failed = total, and total is the number of input documents.
InsertedPlusFailedIsTotal ==
    ins_pc = "done" =>
        /\ stats.total = Len(ins_data)
        /\ stats.inserted + stats.failed = stats.total

\* C1 witness: a returned run that mixed successful, partially failing and
\* totally failing batches.
InsertMixedRunReturned ==
    /\ ins_pc = "done"
    /\ bulk_seen = {"ok", "write_error", "exception"}
    /\ stats.inserted > 0
    /\ stats.failed > 0

\* The batches are non-empty, of at most b elements, and concatenate to a
\* prefix of the input; once complete they concatenate to the whole input
\* and there are ceil(n/b) of them.
ConsecutiveBatches(batches, input, b, complete) ==
    /\ \A k \in 1..Len(batches) : Len(batches[k]) \in 1..b
    /\ IsPrefix(Flatten(batches), input)
    /\ complete =>
          /\ Flatten(batches) = input
          /\ Len(batches) = CeilDiv(Len(input), b)

\* The documents of the k-th batch of the embedding loop, by input position.
EmbedBatchPositions(k) ==
    [j \in 1..(emb_batches[k][2] - emb_batches[k][1]) |-> emb_batches[k][1] + j]

\* C3: in both loops the batches processed are consecutive slices of the
\* input in input order, each of at most batch_size documents, and a
\* completed loop has processed ceil(n/b) batches that together hold every
\* document exactly once.
BatchesPartitionInput ==
    /\ ConsecutiveBatches(bulk_requests, ins_data, ins_batch_size,
                          ins_pc = "done")
    /\ ConsecutiveBatches([k \in 1..Len(emb_batches) |-> EmbedBatchPositions(k)],
                          [k \in 1..Len(data) |-> k], emb_batch_size,
                          emb_pc = "done")

\* C3 witness: 10 documents inserted with batch size 4 went out as batches
\* of 4, 4 and 2 documents.
InsertTenByFour ==
    /\ ins_pc = "done"
    /\ Len(ins_data) = 10
    /\ ins_batch_size = 4
    /\ [k \in 1..Len(bulk_requests) |-> Len(bulk_requests[k])] = <<4, 4, 2>>

\* C5: a batch whose bulk_write raises some other exception is counted
\* failed as a whole and the loop goes on; insert_data never ends by
\* raising, and when it returns every batch has been submitted.
InsertNeverAborts ==
    /\ [](ins_pc \in {"idle", "loop", "done"})
    /\ [](ins_pc = "done" =>
            /\ stats # NoStats
            /\ Len(bulk_requests) = CeilDiv(Len(ins_data), ins_batch_size))
    /\ [][(InsertStep /\ bulk_last' = "exception") =>
            /\ failed_count' = failed_count + Len(SubmittedBatch)
            /\ inserted_count' = inserted_count
            /\ ins_pc' = "loop"]_vars

\* C5 witness: the run returned although an earlier batch failed totally
\* and a later batch was submitted after it.
InsertReturnedAfterTotalFailure ==
    /\ ins_pc = "done"
    /\ "exception" \in bulk_seen
    /\ bulk_last = "ok"
    /\ stats.failed > 0

InsertStatsAreTrueCounts ==
    ins_pc = "done" =>
        /\ stats.inserted = persisted
        /\ stats.failed = Len(ins_data) - persisted

(* ------------------------- embedding pass ----------------------------- *)
\* A present, non-empty text field on input.
Eligible(p) == emb_input[p].text \in Texts
CarriedVector(p) == emb_input[p].vec # NoVector
HasVector(p) == data[p].vec # NoVector
DocPositions == 1..Len(emb_input)

\* C4 as stated: after a completed pass a document has the vector field iff
\* it had a present, non-empty text field on input, and as many documents
\* carry the vector field as were eligible.
VectorIffText ==
    emb_pc = "done" =>
        /\ \A p \in DocPositions : HasVector(p) <=> Eligible(p)
        /\ Cardinality({p \in DocPositions : HasVector(p)})
               = Cardinality({p \in DocPositions : Eligible(p)})

\* C4 amended: after a completed pass a document that did not carry the
\* vector field on input has it iff it had a present, non-empty text field;
\* a document that carried one still has one; the documents with the vector
\* field are the eligible ones and the ineligible ones that carried it.
VectorIffTextOrCarried ==
    emb_pc = "done" =>
        /\ Len(data) = Len(emb_input)
        /\ \A p \in DocPositions :
              ~CarriedVector(p) => (HasVector(p) <=> Eligible(p))
        /\ \A p \in DocPositions : CarriedVector(p) => HasVector(p)
        /\ Cardinality({p \in DocPositions : HasVector(p)})
               = Cardinality({p \in DocPositions : Eligible(p)})
                 + Cardinality({p \in DocPositions :
                                  ~Eligible(p) /\ CarriedVector(p)})

\* C4 witness: a completed pass over documents without vectors, some with
\* text, one without the key and one with an empty text.
EmbedPassMixedDone ==
    /\ emb_pc = "done"
    /\ \A p \in DocPositions : ~CarriedVector(p)
    /\ \E p, q, r \in DocPositions :
          /\ Eligible(p) /\ HasVector(p)
          /\ emb_input[q].text = Absent /\ ~HasVector(q)
          /\ emb_input[r].text = "" /\ ~HasVector(r)

\* The input positions lo + 1 .. hi of batch number bn.
BatchLo(bn) == (bn - 1) * emb_batch_size
BatchHi(bn) == Min(bn * emb_batch_size, Len(emb_input))
BatchPositions(bn) == (BatchLo(bn) + 1)..BatchHi(bn)

\* The rank of p among the eligible documents of its batch.
EligibleRank(bn, p) ==
    Cardinality({q \in BatchPositions(bn) : q <= p /\ Eligible(q)})

\* C8: once an embedding call has raised, main has failed, the batch of the
\* failing call is the last one touched, no further call is made, no
\* document changes and the output file is never written.
EmbedFailureIsFatal ==
    /\ [](embed_last = "raised" =>
            /\ emb_pc = "failed"
            /\ output_file = NotWritten
            /\ Len(emb_batches) = embed_calls[Len(embed_calls)].batch_num - 1)
    /\ [][embed_last = "raised" =>
            UNCHANGED <<embed_calls, emb_batches, data, output_file>>]_vars

\* C8 witness: the call of a later batch raised while batches were left.
EmbedRaisedMidway ==
    /\ embed_last = "raised"
    /\ Len(embed_calls) >= 2
    /\ emb_i + emb_batch_size < Len(data)
    /\ \E p \in DocPositions : data[p].vec # emb_input[p].vec

\* C9: every embedding call carries exactly the non-empty texts of its
\* batch in document order, and after a batch is processed its i-th eligible
\* document holds the i-th vector of that call, while its documents without
\* text keep the vector field they had.
EmbedCallsMatchBatches ==
    /\ \A c \in 1..Len(embed_calls) :
          LET bn == embed_calls[c].batch_num
              texts == embed_calls[c].texts
          IN /\ Len(texts) = Cardinality({q \in BatchPositions(bn) : Eligible(q)})
             /\ \A p \in BatchPositions(bn) :
                   Eligible(p) => texts[EligibleRank(bn, p)] = emb_input[p].text
    /\ \A bn \in 1..Len(emb_batches) :
          \A p \in BatchPositions(bn) :
             /\ Eligible(p) => data[p].vec = <<bn, EligibleRank(bn, p)>>
             /\ ~Eligible(p) => data[p].vec = emb_input[p].vec

\* C9 witness: a processed batch in which a document without text stands
\* between two documents with different texts, the later of which received
\* the second vector of the call.
EmbedSkippedDocumentInBatch ==
    \E bn \in 1..Len(emb_batches) :
        \E p \in BatchPositions(bn) :
            /\ p + 2 \in BatchPositions(bn)
            /\ Eligible(p) /\ ~Eligible(p + 1) /\ Eligible(p + 2)
            /\ emb_input[p].text # emb_input[p + 2].text
            /\ data[p + 2].vec = <<bn, 2>>

(* ------------------------ index replacement --------------------------- *)
VectorIndexesOnField == {x \in indexes : IsVectorIndexOn(x, VectorField)}

VectorIndexesBefore == {x \in idx_before : IsVectorIndexOn(x, VectorField)}

\* The create-index request of the current call has been issued.
CreateIssuedThisCall ==
    Len(create_requests) = IF idx_pc = "raised" THEN idx_calls + 1 ELSE idx_calls

\* C11: once list_indexes or drop_index has failed inside the drop phase,
\* the call goes on to the create-index request: it can only be waiting to
\* issue it or have issued it, and if the call raised, the error is the one
\* of the create-index command, not the one of the drop phase.
DropFailureIsSwallowed ==
    drop_error # "none" =>
        /\ idx_pc \in {"create", "returned", "raised"}
        /\ idx_pc \in {"returned", "raised"} => CreateIssuedThisCall
        /\ idx_pc = "raised" => store_error \in CreateErrors
        /\ idx_pc # "raised" => idx_error = NoError

\* C11 witness: a drop_index failed and the call still created its index.
DropFailedThenCreated ==
    /\ drop_error = "drop"
    /\ idx_pc = "returned"
    /\ create_requests[Len(create_requests)] = IndexName(idx_algo)
    /\ NewIndex(idx_algo) \in indexes

\* C12: a failing create-index command makes the create function raise, and
\* the error that leaves the function is the one the store raised, for each of
\* the three algorithms and also when the tier guidance was printed.
CreateErrorPropagatesVerbatim ==
    /\ store_error # NoError => idx_pc = "raised"
    /\ idx_pc = "raised" => idx_error = store_error /\ idx_error \in CreateErrors

\* C12 witness: DiskANN is refused by the cluster tier, the guidance is
\* printed and the call has raised.
CreateRaisedWithGuidance ==
    /\ idx_pc = "raised"
    /\ idx_algo = "diskann"
    /\ store_error = TierError
    /\ guidance

\* C13: when the collection had no vector index on the field as the call
\* began, no drop_index request is made, and the call does not end before
\* its create-index request: if it raised, the create command raised.
FreshCollectionDropsNothing ==
    VectorIndexesBefore = {} =>
        /\ drop_count = 0
        /\ drop_requests = {}
        /\ idx_pc # "drop"
        /\ idx_pc \in {"returned", "raised"} => CreateIssuedThisCall
        /\ idx_pc = "raised" => store_error \in CreateErrors

\* C13 witness: a call on a collection holding only the _id index listed
\* nothing to drop and created its index.
FreshCollectionCreated ==
    /\ idx_before = {IdIndex}
    /\ idx_pc = "returned"
    /\ drop_error = "none"
    /\ indexes = {IdIndex, NewIndex(idx_algo)}

\* The scores of a result list do not increase / strictly decrease.
ScoresNonIncreasing(rs) ==
    \A i, j \in 1..Len(rs) : i < j => rs[i].score >= rs[j].score

ScoresStrictlyDecreasing(rs) ==
    \A i, j \in 1..Len(rs) : i < j => rs[i].score > rs[j].score

\* C14: a search function that returned made one aggregation request and
\* returned the documents the store yielded for it, the same ones in the
\* same order.
ResultsAreStoreSequence ==
    srch_pc = "returned" =>
        /\ Len(aggregate_requests) = 1
        /\ Len(results) = Len(store_results)
        /\ \A i \in 1..Len(results) : results[i] = store_results[i]

\* C14 witness: a search returned three results with two different scores.
SearchReturnedThree ==
    /\ srch_pc = "returned"
    /\ Len(store_results) = 3
    /\ results[1].score # results[3].score

\* C15 as stated: a search with top_k = 3 on a populated index returns at
\* most 3 results in strictly descending order of score.
TopThreeStrictlyDescending ==
    (srch_pc = "returned" /\ top_k = 3 /\ store_hits # <<>>) =>
        /\ Len(results) <= 3
        /\ ScoresStrictlyDecreasing(results)

\* C15 amended: a search with top_k = 3 on a populated index returns at most
\* 3 results and their scores do not increase along the list; results of
\* equal score may follow each other.
TopThreeDescending ==
    (srch_pc = "returned" /\ top_k = 3 /\ store_hits # <<>>) =>
        /\ Len(results) <= 3
        /\ ScoresNonIncreasing(results)

\* C15 witness: the index holds four documents, top_k = 3 returned three of
\* them, the first two with the same score, the third with a lower one.
TopThreeOfFourWithTie ==
    /\ srch_pc = "returned"
    /\ top_k = 3
    /\ Len(store_hits) = 4
    /\ Len(results) = 3
    /\ results[1].score = results[2].score
    /\ results[2].score > results[3].score

\* C16: whatever the embedding service or the store raised leaves the search
\* function as it is; after a failed query embedding no aggregation request
\* has been made, and after a failed query nothing is returned.
SearchFailurePropagates ==
    /\ srch_cause # NoError => srch_pc = "raised" /\ srch_error = srch_cause
    /\ srch_pc = "raised" => srch_error \in {EmbedError, QueryError}
    /\ srch_cause = EmbedError => aggregate_requests = <<>>
    /\ srch_cause = QueryError => srch_pc # "returned" /\ results = <<>>

\* C16 witness: the query embedding failed and the function raised.
SearchRaisedOnEmbedding ==
    /\ srch_pc = "raised"
    /\ srch_cause = EmbedError
    /\ query_embeds = 1

\* The batches insert_data has taken from its input so far.
InsertBatchesStarted == CeilDiv(Min(ins_i, Len(ins_data)), ins_batch_size)

\* C17: nothing is requested twice.  insert_data has sent one bulk_write
\* per batch taken, all different; the embedding pass has called the service
\* at most once for any batch; a create call has requested the drop of an
\* index name at most once and has sent at most one createIndexes command;
\* a search has made at most one embedding call and at most one aggregation.
NoAutomaticRetry ==
    /\ Len(bulk_requests) = InsertBatchesStarted
    /\ \A a, b \in 1..Len(bulk_requests) : a # b => bulk_requests[a] # bulk_requests[b]
    /\ \A a, b \in 1..Len(embed_calls) :
          a < b => embed_calls[a].batch_num < embed_calls[b].batch_num
    /\ drop_count = Cardinality(drop_requests)
    /\ CreateIssuedThisCall
    /\ query_embeds <= 1
    /\ Len(aggregate_requests) <= 1

\* C17 witness: insert_data returned after three batches of which one ended
\* in an exception and one in a BulkWriteError.
InsertFailuresNotRetried ==
    /\ ins_pc = "done"
    /\ bulk_seen = {"ok", "write_error", "exception"}
    /\ Len(bulk_requests) = 3

\* C18: when main has ended, on whatever path, every client that was
\* constructed has been closed.
AllClientsReleasedAtExit ==
    main_pc = "exited" => clients_created \subseteq clients_released

\* C19: when get_clients or get_clients_passwordless raises for a missing
\* setting, no client has been constructed.
ConfigMissingRaisedBeforeClients ==
    main_error = ConfigMissing => clients_created = {}

\* C20: in a search script whose loaded documents all lack the vector field,
\* main asks nothing of the store and the collection stays as it was, and a
\* main that got as far as the check ends with the error of that check.
NoEmbeddingsRaisesBeforeStoreRequests ==
    /\ main_error = NoEmbeddings => documents_with_embeddings = <<>>
    /\ (main_script \in Algorithms /\ documents_with_embeddings = <<>>) =>
          /\ main_requests = <<>>
          /\ main_store = store_before
          /\ main_pc \notin {"insert", "index", "search"}
          /\ main_pc = "exited" =>
                main_error \in {ConfigMissing, ConstructionError, LoadError,
                                NoEmbeddings}

\* C20 witness: ivf.py loaded documents of which none has the vector field,
\* on a collection that held documents and a vector index, and has ended
\* with the error of the check.
MainExitedWithoutEmbeddings ==
    /\ main_pc = "exited"
    /\ main_script = "ivf"
    /\ main_error = NoEmbeddings
    /\ Len(main_data) >= 1
    /\ store_before.docs >= 1
    /\ store_before.index

\* The documents of a sequence of has-vector flags that lack the vector
\* field: after the embedding pass, the documents that had no text (and
\* carried no vector).
WithoutVector(docs) == {i \in DOMAIN docs : ~docs[i]}

\* C21 (its last part): once a search script's main has called insert_data,
\* the loaded documents that lack the vector field were passed to it like
\* the others.
DocumentsWithoutVectorAreInserted ==
    "insert_data" \in {main_requests[i] : i \in DOMAIN main_requests} =>
        /\ Len(main_submitted) = Len(main_data)
        /\ Cardinality(WithoutVector(main_submitted))
               = Cardinality(WithoutVector(main_data))

\* C28: when insert_data has reported inserted = 0, main has cleared the
\* collection and called insert_data and asks nothing more of the store: no
\* create function (with its drop phase) and no search is called, and main
\* ends with the error of that check.
NothingInsertedAborts ==
    /\ main_error = NothingInserted => main_inserted = 0
    /\ (main_pc \in {"index", "search", "finally", "exited"}
        /\ main_submitted # <<>> /\ main_inserted = 0) =>
          /\ main_requests = <<"delete_many", "insert_data">>
          /\ main_pc # "search"
          /\ main_searches = 0
          /\ main_store.index = store_before.index
          /\ main_pc \in {"finally", "exited"} => main_error = NothingInserted

\* C28 witness: hnsw.py cleared a collection that held documents, insert_data
\* reported no document inserted, and main has ended with the error.
MainExitedNothingInserted ==
    /\ main_pc = "exited"
    /\ main_script = "hnsw"
    /\ main_error = NothingInserted
    /\ Len(main_submitted) >= 1
    /\ store_before.docs >= 1
    /\ main_requests[1] = "delete_many"

GuidanceOnTierError ==
    (idx_pc = "raised" /\ store_error = TierError) => guidance

\* C25: when the createIndexes command failed after a drop phase in which
\* nothing failed, the field has no vector index; nothing was added, and if
\* the field had a vector index before the call the collection is not as it
\* was.
FailedCreateLeavesNoIndex ==
    (idx_pc = "raised" /\ drop_error = "none") =>
        /\ VectorIndexesOnField = {}
        /\ indexes \subseteq idx_before
        /\ VectorIndexesBefore # {} => indexes # idx_before

\* C25 witness: the one vector index the field had was dropped and the
\* create then failed.
CreateFailedAfterDrop ==
    /\ idx_pc = "raised"
    /\ drop_error = "none"
    /\ Cardinality(VectorIndexesBefore) = 1
    /\ drop_count = 1
    /\ VectorIndexesOnField = {}

\* An index whose key maps the field to the vector-search marker, said
\* without the test the drop phase makes.
KeyMapsFieldToMarker(x) == <<x.field, x.marker>> = <<VectorField, CosmosSearch>>

\* C26: every name passed to drop_index is the name of an index that was in
\* the collection when the call began and whose key maps the field to the
\* vector-search marker, and the other indexes (on other fields, or
\* conventional ones on the field) are those the call began with.
DropsOnlyVectorIndexesOnField ==
    /\ \A name \in drop_requests :
          \E x \in idx_before : x.name = name /\ KeyMapsFieldToMarker(x)
    /\ {x \in indexes : ~KeyMapsFieldToMarker(x)}
           = {x \in idx_before : ~KeyMapsFieldToMarker(x)}

\* C26 witness: the collection carried a vector index and an ascending index
\* on the field and a vector index on another field; the drop phase has
\* ended having dropped one index.
DropPhaseKeptOtherIndexes ==
    /\ idx_pc = "create"
    /\ drop_error = "none"
    /\ drop_count = 1
    /\ Index("DescriptionVector_1", VectorField, Ascending) \in indexes
    /\ Index("other_vector_index", OtherField, CosmosSearch) \in indexes

\* The number of batches of the embedding pass, and what a loop that has
\* processed n of them should have done: each batch, then a pause unless
\* the batch is the last one.
EmbedBatchCount == CeilDiv(Len(emb_input), emb_batch_size)

PacedEvents(n) ==
    Flatten([bn \in 1..n |->
                IF bn < EmbedBatchCount
                THEN <<<<"batch", bn>>, <<"sleep", bn>>>>
                ELSE <<<<"batch", bn>>>>])

\* C24: the loop over k batches pauses once after each of the batches
\* 1..k-1, after the batch was processed and before the next one is, and
\* does not pause after batch k.
PausesBetweenBatches ==
    /\ emb_events = PacedEvents(Len(emb_batches))
    /\ sleeps = [bn \in 1..Min(Len(emb_batches), EmbedBatchCount - 1) |-> bn]
    /\ (emb_pc = "done" /\ EmbedBatchCount >= 1) =>
          /\ Len(sleeps) = EmbedBatchCount - 1
          /\ emb_events[Len(emb_events)] = <<"batch", EmbedBatchCount>>

\* C24 witness: a completed pass over three batches paused after the first
\* and the second.
EmbedPassPausedTwice ==
    /\ emb_pc = "done"
    /\ Len(emb_batches) = 3
    /\ sleeps = <<1, 2>>

NoEmptyEmbedCall ==
    /\ \A c \in 1..Len(embed_calls) : embed_calls[c].texts # <<>>
    /\ emb_pc = "done" =>
          Len(embed_calls)
              = Cardinality({bn \in 1..EmbedBatchCount :
                                \E p \in BatchPositions(bn) : Eligible(p)})

\* C29 witness: a completed pass of three batches of which one had no
\* document with text made two calls.
EmbedPassSkippedBatch ==
    /\ emb_pc = "done"
    /\ Len(emb_batches) = 3
    /\ Len(embed_calls) = 2

\* C30: at any moment of the pass the documents are as many as on input and
\* each has the text field it had; a document without non-empty text is as
\* it was, vector field included; and the file written holds the documents
\* as the pass left them.
EmbedPassFrame ==
    /\ Len(data) = Len(emb_input)
    /\ \A p \in DocPositions : data[p].text = emb_input[p].text
    /\ \A p \in DocPositions : ~Eligible(p) => data[p] = emb_input[p]
    /\ emb_pc = "done" => output_file = data

\* C30 witness: a completed pass gave a vector to a document with text and
\* left alone one without the text field that carried a vector and one with
\* an empty text.
EmbedPassLeftIneligibleAlone ==
    /\ emb_pc = "done"
    /\ \E p, q, r \in DocPositions :
          /\ Eligible(p) /\ data[p].vec # emb_input[p].vec
          /\ emb_input[q] = [text |-> Absent, vec |-> OldVector]
          /\ emb_input[r].text = ""
====
